---- MODULE Spec2Model ----
(***************************************************************************)
(* Model of corvid's extensible_arena: a bump allocator over a singly      *)
(* linked chain of list_node blocks, bound to a thread through            *)
(* extensible_arena::scope and the thread_local tls_head.                 *)
(*                                                                         *)
(* Addresses are modelled as indices: a list_node is an index into the    *)
(* heap `nodes`, a pointer to an arena's head_ member is the arena's      *)
(* number, and nullptr is 0. size_t is an unsigned integer of Width bits. *)
(***************************************************************************)
EXTENDS Integers, Sequences, FiniteSets, TLC

\* ------------------------------------------------------------------ bounds
\* Bits of size_t in the model (the arithmetic of list_node::allocate wraps
\* at 2^Width).
Width == 7
\* Largest byte count a caller asks for in Spec.
MaxN == 4
\* Most list_nodes the heap holds (growth is disabled beyond it).
MaxNodes == 3
\* Deepest nesting of live scope objects on one thread's stack.
MaxDepth == 2

\* ------------------------------------------------------------------ inputs
Threads == {1, 2}
Arenas == {1, 2}
\* The capacity each arena is constructed with, by arena.
Capacities == <<3, 1>>
\* The thread that runs in Spec.
Main == {1}
\* Alignments the callers pass (powers of two, as alignof yields).
Alignments == {1, 2, 4}
Sizes == 0..MaxN

nullptr == 0

VARIABLES
  nodes,     \* the heap: nodes[i] is the list_node at address i
  head_,     \* head_[a]: extensible_arena::head_ of arena a (a node address)
  tls_head,  \* tls_head[t]: thread t's tls_head (an arena whose head_ it points to, or nullptr)
  scopes,    \* scopes[t]: the scope objects alive on thread t's stack, innermost last
  regions,   \* the non-empty regions returned so far by successful allocations
  aborted,   \* TRUE once assert(tls_head) or std::terminate has ended the process
  deleted,   \* the nodes list_node_deleter has been called on, in the order of the calls
  thrown,    \* TRUE once std::bad_alloc has left a call and reached its caller
  inert,     \* the calls with an empty body made so far ("deallocate", "fake")
  target,    \* the AppendTarget of strings::append_join_with: the pieces appended so far
  pending    \* the call of append_join_with the program makes: its template and function arguments

vars == <<nodes, head_, tls_head, scopes, regions, aborted, deleted, thrown,
          inert, target, pending>>

\* What allocation and scopes leave alone.
rest == <<deleted, thrown, inert, target, pending>>

\* A program that joins nothing.
NoJoin == target = <<>> /\ pending = <<>>

\* ------------------------------------------------------- size_t arithmetic
\* The number of values of size_t.
SizeMod == 2 ^ Width

\* Unsigned wrap-around of size_t.
Wrap(x) == x % SizeMod

RECURSIVE BitAnd(_, _)
BitAnd(a, b) ==
  IF a = 0 \/ b = 0 THEN 0
  ELSE (a % 2) * (b % 2) + 2 * BitAnd(a \div 2, b \div 2)

\* ~x on size_t.
BitNot(x) == SizeMod - 1 - x

Min(a, b) == IF a < b THEN a ELSE b

Max(a, b) == IF a < b THEN b ELSE a

\* --------------------------------------------------------------- list_node
\* list_node::make(capacity): a fresh node, size 0, no next.
make(capacity) == [capacity |-> capacity, size |-> 0, next |-> nullptr]

\* list_node::allocate with `size = past` moved above the capacity check.
list_node_allocate_commits_first(node, n, align) ==
  LET start == BitAnd(Wrap(node.size + align - 1), BitNot(Wrap(align - 1)))
      past  == Wrap(start + n)
  IN  [ok |-> past <= node.capacity,
       start |-> IF past > node.capacity THEN 0 ELSE start,
       node |-> [node EXCEPT !.size = past]]

\* list_node::allocate without the rounding of start.
list_node_allocate_unaligned(node, n, align) ==
  LET start == node.size
      past  == Wrap(start + n)
  IN  IF past > node.capacity
        THEN [ok |-> FALSE, start |-> 0, node |-> node]
        ELSE [ok |-> TRUE, start |-> start, node |-> [node EXCEPT !.size = past]]

\* list_node::allocate comparing start, not past, with the capacity.
list_node_allocate_checks_start(node, n, align) ==
  LET start == BitAnd(Wrap(node.size + align - 1), BitNot(Wrap(align - 1)))
      past  == Wrap(start + n)
  IN  IF start > node.capacity
        THEN [ok |-> FALSE, start |-> 0, node |-> node]
        ELSE [ok |-> TRUE, start |-> start, node |-> [node EXCEPT !.size = past]]

\* list_node::allocate with `size = n` for `size = past`.
list_node_allocate_sets_n(node, n, align) ==
  LET start == BitAnd(Wrap(node.size + align - 1), BitNot(Wrap(align - 1)))
      past  == Wrap(start + n)
  IN  IF past > node.capacity
        THEN [ok |-> FALSE, start |-> 0, node |-> node]
        ELSE [ok |-> TRUE, start |-> start, node |-> [node EXCEPT !.size = n]]

\* list_node::allocate checking size + n, the padding left out.
list_node_allocate_ignores_padding(node, n, align) ==
  LET start == BitAnd(Wrap(node.size + align - 1), BitNot(Wrap(align - 1)))
      past  == Wrap(start + n)
  IN  IF Wrap(node.size + n) > node.capacity
        THEN [ok |-> FALSE, start |-> 0, node |-> node]
        ELSE [ok |-> TRUE, start |-> start, node |-> [node EXCEPT !.size = past]]

\* list_node::allocate without `size = past`: the bytes handed out are not
\* marked as used.
list_node_allocate_forgets(node, n, align) ==
  LET start == BitAnd(Wrap(node.size + align - 1), BitNot(Wrap(align - 1)))
      past  == Wrap(start + n)
  IN  IF past > node.capacity
        THEN [ok |-> FALSE, start |-> 0, node |-> node]
        ELSE [ok |-> TRUE, start |-> start, node |-> node]

\* list_node::allocate(n, align) on `node`: the node afterwards, and the
\* returned pointer as (ok, start), ok = FALSE being nullptr.
list_node_allocate(node, n, align) ==
  LET start == BitAnd(Wrap(node.size + align - 1), BitNot(Wrap(align - 1)))
      past  == Wrap(start + n)
  IN  IF past > node.capacity
        THEN [ok |-> FALSE, start |-> 0, node |-> node]
        ELSE [ok |-> TRUE, start |-> start, node |-> [node EXCEPT !.size = past]]

\* ------------------------------------------------------------------- arena
\* extensible_arena::allocate without `head = std::move(new_head)`: head is
\* left moved-from.
arena_allocate_drops_head(ns, h, n, align) ==
  LET first == list_node_allocate(ns[h], n, align)
      tried == [ns EXCEPT ![h] = first.node]
  IN  IF first.ok
        THEN [nodes |-> tried, head |-> h, ret |-> h, start |-> first.start]
        ELSE LET new_head == [make(Min(ns[h].capacity, n)) EXCEPT !.next = h]
             IN  [nodes |-> Append(tried, new_head), head |-> nullptr,
                  ret |-> nullptr, start |-> 0]

\* extensible_arena::allocate without `new_head->next = std::move(head)`:
\* the old chain is not linked behind the new head.
arena_allocate_unlinked(ns, h, n, align) ==
  LET first == list_node_allocate(ns[h], n, align)
      tried == [ns EXCEPT ![h] = first.node]
  IN  IF first.ok
        THEN [nodes |-> tried, head |-> h, ret |-> h, start |-> first.start]
        ELSE LET new_head == make(Min(ns[h].capacity, n))
                 retry    == list_node_allocate(new_head, n, align)
                 id       == Len(ns) + 1
             IN  [nodes |-> Append(tried, retry.node), head |-> id,
                  ret |-> IF retry.ok THEN id ELSE nullptr,
                  start |-> retry.start]

\* extensible_arena::allocate that, the head having no room, tries the
\* block behind the head before it makes a new one.
arena_allocate_reuses_older(ns, h, n, align) ==
  LET first == list_node_allocate(ns[h], n, align)
      tried == [ns EXCEPT ![h] = first.node]
      older == ns[h].next
      again == list_node_allocate(ns[IF older = nullptr THEN h ELSE older], n, align)
  IN  IF first.ok
        THEN [nodes |-> tried, head |-> h, ret |-> h, start |-> first.start]
        ELSE IF older # nullptr /\ again.ok
          THEN [nodes |-> [tried EXCEPT ![older] = again.node], head |-> h,
                ret |-> older, start |-> again.start]
          ELSE LET new_head == [make(Min(ns[h].capacity, n)) EXCEPT !.next = h]
                   retry    == list_node_allocate(new_head, n, align)
                   id       == Len(ns) + 1
               IN  [nodes |-> Append(tried, retry.node), head |-> id,
                    ret |-> IF retry.ok THEN id ELSE nullptr,
                    start |-> retry.start]

\* extensible_arena::allocate linking the new block behind the head
\* instead of making it the head.
arena_allocate_links_behind(ns, h, n, align) ==
  LET first == list_node_allocate(ns[h], n, align)
      tried == [ns EXCEPT ![h] = first.node]
  IN  IF first.ok
        THEN [nodes |-> tried, head |-> h, ret |-> h, start |-> first.start]
        ELSE LET new_node == [make(Min(ns[h].capacity, n)) EXCEPT !.next = ns[h].next]
                 retry    == list_node_allocate(new_node, n, align)
                 id       == Len(ns) + 1
             IN  [nodes |-> Append([tried EXCEPT ![h].next = id], retry.node),
                  head |-> h,
                  ret |-> IF retry.ok THEN id ELSE nullptr,
                  start |-> retry.start]

\* extensible_arena::allocate without the first attempt on the head: every
\* call makes a block.
arena_allocate_skips_head(ns, h, n, align) ==
  LET new_head == [make(Min(ns[h].capacity, n)) EXCEPT !.next = h]
      retry    == list_node_allocate(new_head, n, align)
      id       == Len(ns) + 1
  IN  [nodes |-> Append(ns, retry.node), head |-> id,
       ret |-> IF retry.ok THEN id ELSE nullptr,
       start |-> retry.start]

\* extensible_arena::allocate that, the retry on the new head having
\* failed, makes a further block of n bytes and tries that.
arena_allocate_grows_until_fits(ns, h, n, align) ==
  LET first == list_node_allocate(ns[h], n, align)
      tried == [ns EXCEPT ![h] = first.node]
  IN  IF first.ok
        THEN [nodes |-> tried, head |-> h, ret |-> h, start |-> first.start,
              attempts |-> 1, made |-> 0]
        ELSE LET new_head == [make(Min(ns[h].capacity, n)) EXCEPT !.next = h]
                 retry    == list_node_allocate(new_head, n, align)
                 id       == Len(ns) + 1
                 further  == list_node_allocate([make(n) EXCEPT !.next = id], n, align)
             IN  IF retry.ok
                   THEN [nodes |-> Append(tried, retry.node), head |-> id,
                         ret |-> id, start |-> retry.start,
                         attempts |-> 2, made |-> 1]
                   ELSE [nodes |-> Append(Append(tried, retry.node), further.node),
                         head |-> id + 1,
                         ret |-> IF further.ok THEN id + 1 ELSE nullptr,
                         start |-> further.start,
                         attempts |-> 3, made |-> 2]

\* extensible_arena::allocate(pointer& head, n, align) on heap ns with
\* head h: the heap and the head afterwards, the node the returned region
\* lies in (nullptr when the call returns nullptr) and its offset, the
\* number of calls of list_node::allocate and of list_node::make.
arena_allocate(ns, h, n, align) ==
  LET first == list_node_allocate(ns[h], n, align)
      tried == [ns EXCEPT ![h] = first.node]
  IN  IF first.ok
        THEN [nodes |-> tried, head |-> h, ret |-> h, start |-> first.start,
              attempts |-> 1, made |-> 0]
        ELSE LET new_head == [make(Min(ns[h].capacity, n)) EXCEPT !.next = h]
                 retry    == list_node_allocate(new_head, n, align)
                 id       == Len(ns) + 1
             IN  [nodes |-> Append(tried, retry.node), head |-> id,
                  ret |-> IF retry.ok THEN id ELSE nullptr,
                  start |-> retry.start,
                  attempts |-> 2, made |-> 1]

\* The chain owned through head h: the node addresses, head first.
RECURSIVE Chain(_, _)
Chain(ns, h) == IF h = nullptr THEN <<>> ELSE <<h>> \o Chain(ns, ns[h].next)

ChainSet(ns, h) == {Chain(ns, h)[i] : i \in 1..Len(Chain(ns, h))}

\* ------------------------------------------------------------------- scope
\* scope::scope(arena) on a thread whose tls_head is `current`: the scope
\* object. Its member old_head is initialised from &arena.head_; `arena`
\* notes the constructor's argument, the arena the scope installs.
scope_ctor(arena, current) == [old_head |-> arena, arena |-> arena]

\* scope::~scope(): the value tls_head is set to.
scope_dtor(s) == s.old_head

\* A store to tls_head made by thread t: tls_head is thread_local, so the
\* store reaches t's instance of the variable and no other thread's.
tls_store_shared(tls, t, v) == [u \in DOMAIN tls |-> v]

tls_store(tls, t, v) == [tls EXCEPT ![t] = v]

\* ------------------------------------------------------------------- state
Init ==
  /\ nodes = [a \in Arenas |-> make(Capacities[a])]
  /\ head_ = [a \in Arenas |-> a]
  /\ tls_head = [t \in Threads |-> nullptr]
  /\ scopes = [t \in Threads |-> <<>>]
  /\ regions = {}
  /\ aborted = FALSE
  /\ deleted = <<>>
  /\ thrown = FALSE
  /\ inert = {}
  /\ NoJoin

\* The region a call returned, as the caller holds it.
Region(a, r, n) == [arena |-> a, block |-> r.ret, start |-> r.start, n |-> n]

\* extensible_arena::allocate(n, align) on thread t, a scope being active.
Allocate(t, n, align) ==
  /\ ~aborted
  /\ tls_head[t] # nullptr
  /\ \E a \in {tls_head[t]} :
       \E r \in {arena_allocate(nodes, head_[a], n, align)} :
         /\ Len(r.nodes) <= MaxNodes
         /\ nodes' = r.nodes
         /\ head_' = [head_ EXCEPT ![a] = r.head]
         /\ regions' = IF r.ret = nullptr \/ n = 0 THEN regions
                       ELSE regions \cup {Region(a, r, n)}
  /\ UNCHANGED <<tls_head, scopes, aborted, rest>>

\* extensible_arena::allocate(n, align) on thread t with tls_head null:
\* assert(tls_head) fires, or, where assertions are compiled out, the null
\* tls_head is dereferenced; either way the process ends.
AllocateUnscoped(t) ==
  /\ ~aborted
  /\ tls_head[t] = nullptr
  /\ aborted' = TRUE
  /\ UNCHANGED <<nodes, head_, tls_head, scopes, regions, rest>>

\* A scope on the live arena a is constructed on thread t's stack.
OpenScope(t, a) ==
  /\ ~aborted
  /\ head_[a] # nullptr
  /\ Len(scopes[t]) < MaxDepth
  /\ scopes' = [scopes EXCEPT ![t] = Append(@, scope_ctor(a, tls_head[t]))]
  /\ tls_head' = tls_store(tls_head, t, a)
  /\ UNCHANGED <<nodes, head_, regions, aborted, rest>>

\* The innermost scope on thread t's stack is destroyed (LIFO).
CloseScope(t) ==
  /\ ~aborted
  /\ scopes[t] # <<>>
  /\ tls_head' = tls_store(tls_head, t, scope_dtor(scopes[t][Len(scopes[t])]))
  /\ scopes' = [scopes EXCEPT ![t] = SubSeq(@, 1, Len(@) - 1)]
  /\ UNCHANGED <<nodes, head_, regions, aborted, rest>>

\* The steps of the threads in T.
Step(T) ==
  \/ \E t \in T, n \in Sizes, align \in Alignments : Allocate(t, n, align)
  \/ \E t \in T : AllocateUnscoped(t)
  \/ \E t \in T, a \in Arenas : OpenScope(t, a)
  \/ \E t \in T : CloseScope(t)

\* A single-threaded program.
Next == Step(Main)

Spec == Init /\ [][Next]_vars

\* A single-threaded program that has at most one scope alive at a time.
NextFlat ==
  \/ \E t \in Main, n \in Sizes, align \in Alignments : Allocate(t, n, align)
  \/ \E t \in Main : AllocateUnscoped(t)
  \/ \E t \in Main, a \in Arenas : scopes[t] = <<>> /\ OpenScope(t, a)
  \/ \E t \in Main : CloseScope(t)

SpecFlat == Init /\ [][NextFlat]_vars

\* ------------------------------------------------------------ two threads
\* The arena each thread of the two-threaded program opens its scopes on.
ArenaOf == <<1, 2>>

\* Two threads run interleaved, each with scopes on its own arena only.
NextMT ==
  \/ \E t \in Threads, n \in Sizes, align \in Alignments : Allocate(t, n, align)
  \/ \E t \in Threads : AllocateUnscoped(t)
  \/ \E t \in Threads : OpenScope(t, ArenaOf[t])
  \/ \E t \in Threads : CloseScope(t)

SpecMT == Init /\ [][NextMT]_vars

\* ------------------------------------------------------ one block, any n
\* Byte counts up to the largest size_t: the small ones and the ones whose
\* sums with an offset wrap around.
WrapSizes == (0..MaxN) \cup ((SizeMod - 1 - MaxN)..(SizeMod - 1))

\* One arena whose head, its only block, has any capacity and any size
\* within it.
InitBlock ==
  /\ nodes \in {<<[make(c) EXCEPT !.size = s]>> :
                  c \in 0..(SizeMod - 1), s \in 0..(SizeMod - 1)}
  /\ nodes[1].size <= nodes[1].capacity
  /\ head_ = [a \in Arenas |-> IF a = 1 THEN 1 ELSE nullptr]
  /\ tls_head = [t \in Threads |-> nullptr]
  /\ scopes = [t \in Threads |-> <<>>]
  /\ regions = {}
  /\ aborted = FALSE
  /\ deleted = <<>>
  /\ thrown = FALSE
  /\ inert = {}
  /\ NoJoin

\* list_node::allocate(n, align) is called on block b.
BlockAllocate(b, n, align) ==
  /\ nodes' = [nodes EXCEPT ![b] = list_node_allocate(nodes[b], n, align).node]
  /\ UNCHANGED <<head_, tls_head, scopes, regions, aborted, rest>>

NextBlock ==
  \E b \in 1..Len(nodes), n \in WrapSizes, align \in Alignments :
    BlockAllocate(b, n, align)

SpecBlock == InitBlock /\ [][NextBlock]_vars

\* -------------------------------------------------------------------- fake
\* What a fake is constructed from: an arena, where it stands in for a
\* scope, or a capacity, where it stands in for an arena.
FakeArgs == [arena : Arenas] \cup [capacity : {Capacities[a] : a \in Arenas}]

\* fake::fake(arg) on thread t: the tls_head it leaves. The body is empty,
\* and so is the implicit destructor.
fake_ctor_installs(tls, t, arg) ==
  IF "arena" \in DOMAIN arg THEN tls_store(tls, t, arg.arena) ELSE tls

fake_ctor(tls, t, arg) == tls

\* A fake is constructed from arg on thread t's stack, or destroyed.
Fake(t, arg) ==
  /\ ~aborted
  /\ tls_head' = fake_ctor(tls_head, t, arg)
  /\ inert' = inert \cup {"fake"}
  /\ UNCHANGED <<nodes, head_, scopes, regions, aborted, deleted, thrown, target, pending>>

\* A single-threaded program, with at most one scope alive at a time, parts
\* of which use fake in place of the arena and the scope.
NextFake ==
  \/ \E t \in Main, n \in Sizes, align \in Alignments : Allocate(t, n, align)
  \/ \E t \in Main : AllocateUnscoped(t)
  \/ \E t \in Main, a \in Arenas : scopes[t] = <<>> /\ OpenScope(t, a)
  \/ \E t \in Main : CloseScope(t)
  \/ \E t \in Main, arg \in FakeArgs : Fake(t, arg)

SpecFake == Init /\ [][NextFake]_vars

\* ---------------------------------------------------------------- lifetime
\* list_node_deleter::operator()(node), called by a unique_ptr that owns
\* node h: the nodes the deleter is called on, in order. ~list_node()
\* destroys the member next, whose unique_ptr calls the deleter on the
\* next node, and so on down the chain; then the node's memory is freed.
list_node_deleter_frees_only(ns, h) == IF h = nullptr THEN <<>> ELSE <<h>>

RECURSIVE list_node_deleter(_, _)
list_node_deleter(ns, h) ==
  IF h = nullptr THEN <<>> ELSE <<h>> \o list_node_deleter(ns, ns[h].next)

\* The nodes that have been deleted.
Deleted == {deleted[i] : i \in 1..Len(deleted)}

\* Arena a has been constructed and not destroyed. A destroyed arena's
\* head_ keeps the address it held.
Alive(a) == head_[a] # nullptr /\ head_[a] \notin Deleted

\* ~extensible_arena() of arena a, every scope on it having been destroyed:
\* its only member, head_, is destroyed.
Destroy(a) ==
  /\ ~aborted
  /\ Alive(a)
  /\ \A t \in Threads : \A i \in 1..Len(scopes[t]) : scopes[t][i].arena # a
  /\ deleted' = deleted \o list_node_deleter(nodes, head_[a])
  /\ UNCHANGED <<nodes, head_, tls_head, scopes, regions, aborted, thrown, inert,
               target, pending>>

\* A single-threaded program whose arenas are destroyed at some point. It
\* opens scopes on live arenas and allocates only while the arena its
\* tls_head points into is alive.
NextLifetime ==
  \/ \E t \in Main, n \in Sizes, align \in Alignments :
       \E a \in Arenas : tls_head[t] = a /\ Alive(a) /\ Allocate(t, n, align)
  \/ \E t \in Main : AllocateUnscoped(t)
  \/ \E t \in Main, a \in Arenas : Alive(a) /\ OpenScope(t, a)
  \/ \E t \in Main : CloseScope(t)
  \/ \E a \in Arenas : Destroy(a)

SpecLifetime == Init /\ [][NextLifetime]_vars

\* ----------------------------------------------------------- out of memory
\* No arena has been constructed yet.
InitBare ==
  /\ nodes = <<>>
  /\ head_ = [a \in Arenas |-> nullptr]
  /\ tls_head = [t \in Threads |-> nullptr]
  /\ scopes = [t \in Threads |-> <<>>]
  /\ regions = {}
  /\ aborted = FALSE
  /\ deleted = <<>>
  /\ thrown = FALSE
  /\ inert = {}
  /\ NoJoin

\* extensible_arena a{Capacities[a]}: list_node::make gets its memory.
Construct(a) ==
  /\ ~aborted
  /\ head_[a] = nullptr
  /\ Len(nodes) < MaxNodes
  /\ nodes' = Append(nodes, make(Capacities[a]))
  /\ head_' = [head_ EXCEPT ![a] = Len(nodes) + 1]
  /\ UNCHANGED <<tls_head, scopes, regions, aborted, rest>>

\* extensible_arena a{Capacities[a]} when new char[] in list_node::make
\* throws std::bad_alloc: the constructor is noexcept, so the exception
\* cannot leave it and std::terminate ends the process.
ConstructOOM(a) ==
  /\ ~aborted
  /\ head_[a] = nullptr
  /\ aborted' = TRUE
  /\ UNCHANGED <<nodes, head_, tls_head, scopes, regions, rest>>

\* extensible_arena::allocate(pointer& head, n, align) on heap ns with
\* head h, when the head has no room and list_node::make throws: the heap
\* and the head as the exception leaves them. The failed attempt on the
\* head is all that has run; make is called before head is moved from.
arena_allocate_throws_after_move(ns, h, n, align) ==
  [nodes |-> [ns EXCEPT ![h] = list_node_allocate(ns[h], n, align).node],
   head |-> nullptr]

arena_allocate_throws(ns, h, n, align) ==
  [nodes |-> [ns EXCEPT ![h] = list_node_allocate(ns[h], n, align).node],
   head |-> h]

\* extensible_arena::allocate(n, align) on thread t when the head has no
\* room and new char[] in list_node::make throws std::bad_alloc: make runs
\* before head is moved from, no function on the way is noexcept and none
\* catches, so the exception reaches the caller with the chain as it was.
AllocateOOM(t, n, align) ==
  /\ ~aborted
  /\ tls_head[t] # nullptr
  /\ ~list_node_allocate(nodes[head_[tls_head[t]]], n, align).ok
  /\ \E r \in {arena_allocate_throws(nodes, head_[tls_head[t]], n, align)} :
       /\ nodes' = r.nodes
       /\ head_' = [head_ EXCEPT ![tls_head[t]] = r.head]
  /\ thrown' = TRUE
  /\ UNCHANGED <<tls_head, scopes, regions, aborted, deleted, inert, target, pending>>

\* A single-threaded program that constructs its arenas, has at most one
\* scope alive at a time and may run out of memory wherever a block is made.
NextOOM ==
  \/ \E a \in Arenas : Construct(a)
  \/ \E a \in Arenas : ConstructOOM(a)
  \/ \E t \in Main, n \in Sizes, align \in Alignments : Allocate(t, n, align)
  \/ \E t \in Main, n \in Sizes, align \in Alignments : AllocateOOM(t, n, align)
  \/ \E t \in Main : AllocateUnscoped(t)
  \/ \E t \in Main, a \in Arenas : scopes[t] = <<>> /\ OpenScope(t, a)
  \/ \E t \in Main : CloseScope(t)

SpecOOM == InitBare /\ [][NextOOM]_vars

\* ------------------------------------------------- the 64-byte scenario
\* An arena constructed with capacity 64 serving 40-byte requests: the
\* capacities the two arenas are constructed with, and what callers pass.
ScenarioCapacities == <<64, 1>>
ScenarioSizes == {24, 40}
ScenarioAlignments == {1}

InitScenario ==
  /\ nodes = [a \in Arenas |-> make(ScenarioCapacities[a])]
  /\ head_ = [a \in Arenas |-> a]
  /\ tls_head = [t \in Threads |-> nullptr]
  /\ scopes = [t \in Threads |-> <<>>]
  /\ regions = {}
  /\ aborted = FALSE
  /\ deleted = <<>>
  /\ thrown = FALSE
  /\ inert = {}
  /\ NoJoin

NextScenario ==
  \/ \E t \in Main, n \in ScenarioSizes, align \in ScenarioAlignments :
       Allocate(t, n, align)
  \/ \E t \in Main : AllocateUnscoped(t)
  \/ \E t \in Main, a \in Arenas : OpenScope(t, a)
  \/ \E t \in Main : CloseScope(t)

SpecScenario == InitScenario /\ [][NextScenario]_vars

\* --------------------------------------------------------- arena_allocator
\* The element types T the adapter is instantiated with, by sizeof(T) and
\* alignof(T).
ElementTypes ==
  {[sizeof |-> 1, alignof |-> 1], [sizeof |-> 2, alignof |-> 2],
   [sizeof |-> 4, alignof |-> 4]}

\* Element counts a container asks its allocator for.
Counts == 0..MaxN

\* arena_allocator<T>::allocate(n): the arguments it passes to
\* extensible_arena::allocate.
arena_allocator_allocate_counts_elements(T, n) == [n |-> n, align |-> T.alignof]

arena_allocator_allocate(T, n) ==
  [n |-> Wrap(n * T.sizeof), align |-> T.alignof]

\* arena_allocator<T>::deallocate(p, n), p being the region r: the heap it
\* leaves. The body is empty.
arena_allocator_deallocate_reclaims(ns, r) ==
  IF ns[r.block].size = r.start + r.n
    THEN [ns EXCEPT ![r.block].size = r.start]
    ELSE ns

arena_allocator_deallocate(ns, r) == ns

\* A container on thread t allocates n elements through arena_allocator<T>.
\* An arena_allocator has no members: the call reaches the thread's active
\* arena through the static allocate, whatever the instance.
AdapterAllocate_own_arena(t, T, n) ==
  /\ ~aborted
  /\ tls_head[t] # nullptr
  /\ \E a \in {IF T.sizeof = 1 THEN tls_head[t] ELSE 1} :
       \E r \in {arena_allocate(nodes, head_[a], Wrap(n * T.sizeof), T.alignof)} :
         /\ Len(r.nodes) <= MaxNodes
         /\ nodes' = r.nodes
         /\ head_' = [head_ EXCEPT ![a] = r.head]
         /\ regions' = IF r.ret = nullptr \/ n = 0 THEN regions
                       ELSE regions \cup {Region(a, r, Wrap(n * T.sizeof))}
  /\ UNCHANGED <<tls_head, scopes, aborted, rest>>

AdapterAllocate(t, T, n) ==
  \E c \in {arena_allocator_allocate(T, n)} : Allocate(t, c.n, c.align)

\* A container hands the region r back through arena_allocator::deallocate.
AdapterDeallocate(r) ==
  /\ ~aborted
  /\ r \in regions
  /\ nodes' = arena_allocator_deallocate(nodes, r)
  /\ inert' = inert \cup {"deallocate"}
  /\ UNCHANGED <<head_, tls_head, scopes, regions, aborted, deleted, thrown, target, pending>>

\* A single-threaded program whose containers allocate through the adapter,
\* with at most one scope alive at a time.
NextAdapter ==
  \/ \E t \in Main, T \in ElementTypes, n \in Counts : AdapterAllocate(t, T, n)
  \/ \E t \in Main : AllocateUnscoped(t)
  \/ \E r \in regions : AdapterDeallocate(r)
  \/ \E t \in Main, a \in Arenas : scopes[t] = <<>> /\ OpenScope(t, a)
  \/ \E t \in Main : CloseScope(t)

SpecAdapter == Init /\ [][NextAdapter]_vars

\* ------------------------------------------ strings::append_join_with
\* The flags of join_opt; braced is the value with none of them set.
JoinFlags == {"flat", "keyed", "quoted", "prefixed"}
JoinOpts == SUBSET JoinFlags

\* The template argument char{0}: no brace chosen by the caller.
NoChar == ""

\* The most elements a joined container has.
MaxParts == 3

\* decode::braces_v: unless braces are suppressed, use braces when we have them.
braces_v(opt, open, close) ==
  "flat" \notin opt /\ open # NoChar /\ close # NoChar

\* decode::head_opt_v: the head needs no leading delimiter.
head_opt_v(opt) == opt \ {"prefixed"}

next_opt_v_keeps(opt) == opt

\* decode::next_opt_v: after the head, parts are led by the delimiter.
next_opt_v(opt) == opt \cup {"prefixed"}

keyed_v(opt) == "keyed" \in opt
quoted_v(opt) == "quoted" \in opt
delimit_v(opt) == "prefixed" \in opt
json_v(opt) == {"keyed", "quoted"} \subseteq opt /\ "flat" \notin opt

\* delim::append_if<cond>(target): appends the delimiter when cond holds.
delim_append_if(cond, tgt, d) == IF cond THEN Append(tgt, d) ELSE tgt

\* The pieces a program joins: integers, strings, std::optional of an
\* integer (a sequence of no or one value) and containers of pieces.
IntPart(v) == [kind |-> "int", value |-> v]
StringPart(v) == [kind |-> "string", value |-> v]
OptionalPart(v) == [kind |-> "optional", value |-> v]
ContainerPart(v) == [kind |-> "container", value |-> v]

\* strings::append of one integer or string: the text of the value.
append(tgt, part) ==
  IF part.kind = "int" THEN Append(tgt, ToString(part.value))
                       ELSE Append(tgt, part.value)

\* append_join_with for one piece that is no container, optional, variant
\* or tuple.
append_join_with_piece(opt, open, close, tgt, d, part) ==
  LET add_braces == braces_v(opt, open, close)
      add_quotes == part.kind = "string" /\ quoted_v(opt)
      led    == delim_append_if(delimit_v(opt), tgt, d)
      opened == IF add_braces THEN Append(led, open) ELSE led
      quoted == IF add_quotes THEN Append(opened, "\"") ELSE opened
      valued == append(quoted, part)
      closed == IF add_quotes THEN Append(valued, "\"") ELSE valued
  IN  IF add_braces THEN Append(closed, close) ELSE closed

RECURSIVE append_join_with(_, _, _, _, _, _)
RECURSIVE append_join_with_tail(_, _, _, _, _)

\* The loop of the container overload: parts[b], ..., each joined with
\* next_opt and no braces of its own choosing.
append_join_with_tail(next_opt, tgt, d, parts, b) ==
  IF b > Len(parts)
    THEN tgt
    ELSE append_join_with_tail(next_opt,
           append_join_with(next_opt, NoChar, NoChar, tgt, d, parts[b]),
           d, parts, b + 1)

\* append_join_with<opt, open, close>(target, d, part): the overload is
\* chosen by the type of part. The elements of the containers joined here
\* are never std::pair, so is_keyed is false whatever opt says.
append_join_with(opt, open, close, tgt, d, part) ==
  CASE part.kind \in {"int", "string"} ->
         append_join_with_piece(opt, open, close, tgt, d, part)
    [] part.kind = "optional" ->
         IF part.value # <<>>
           THEN append_join_with(opt, NoChar, NoChar, tgt, d, part.value[1])
           ELSE tgt
    [] part.kind = "container" ->
         LET head_opt   == head_opt_v(opt)
             next_opt   == next_opt_v(opt)
             is_keyed   == FALSE
             is_json    == is_keyed /\ json_v(opt)
             next_open  == IF open # NoChar THEN open
                           ELSE IF is_json THEN "{" ELSE "["
             next_close == IF close # NoChar THEN close
                           ELSE IF is_json THEN "}" ELSE "]"
             add_braces == braces_v(opt, next_open, next_close)
             parts      == part.value
             led    == delim_append_if(delimit_v(opt), tgt, d)
             opened == IF add_braces THEN Append(led, next_open) ELSE led
             filled ==
               IF parts # <<>>
                 THEN append_join_with_tail(next_opt,
                        append_join_with(head_opt, NoChar, NoChar, opened, d,
                                         parts[1]),
                        d, parts, 2)
                 ELSE opened
         IN  IF add_braces THEN Append(filled, next_close) ELSE filled

\* The sequences over S of at most n elements.
SeqUpTo(S, n) == UNION {[1..k -> S] : k \in 0..n}

\* The elements of the containers a program joins.
Elements ==
  {IntPart(1), StringPart("a"), OptionalPart(<<>>), OptionalPart(<<IntPart(2)>>)}
    \cup {ContainerPart(v) : v \in {<<>>, <<IntPart(1)>>, <<IntPart(1), IntPart(2)>>}}

\* The braces a caller chooses: none, or a pair of parentheses.
Braces == {<<NoChar, NoChar>>, <<"(", ")">>}
Delims == {", "}
Targets == {<<>>, <<"x">>}

\* A program about to join one container onto a target.
InitJoin ==
  /\ nodes = [a \in Arenas |-> make(Capacities[a])]
  /\ head_ = [a \in Arenas |-> a]
  /\ tls_head = [t \in Threads |-> nullptr]
  /\ scopes = [t \in Threads |-> <<>>]
  /\ regions = {}
  /\ aborted = FALSE
  /\ deleted = <<>>
  /\ thrown = FALSE
  /\ inert = {}
  /\ target \in Targets
  /\ pending \in [opt : JoinOpts, braces : Braces, d : Delims,
                  parts : {ContainerPart(v) : v \in SeqUpTo(Elements, MaxParts)},
                  before : {target}, done : {FALSE}]

\* strings::append_join_with<opt, open, close>(target, d, parts) on a
\* container.
AppendJoinWith ==
  /\ ~pending.done
  /\ target' = append_join_with(pending.opt, pending.braces[1],
                                pending.braces[2], target, pending.d,
                                pending.parts)
  /\ pending' = [pending EXCEPT !.done = TRUE]
  /\ UNCHANGED <<nodes, head_, tls_head, scopes, regions, aborted, deleted,
                 thrown, inert>>

NextJoin == AppendJoinWith

SpecJoin == InitJoin /\ [][NextJoin]_vars

\* ------------------------------------------------------------ vocabulary
\* The smallest multiple of align that is >= x, over the integers.
RoundUp(x, align) == CHOOSE m \in x..(x + align - 1) : m % align = 0

\* The node addresses of the heap.
Blocks == 1..Len(nodes)

\* The arena thread t allocates from.
Active(t) == tls_head[t]

\* The regions of `rs` that lie in block b.
InBlock(rs, b) == {r \in rs : r.block = b}

\* A step of Allocate(t, n, align) that returned a non-null pointer.
Returned(t, n) ==
  \E r \in regions' \ regions : r.arena = Active(t) /\ r.n = n

\* A step that created a block.
Grew == Len(nodes') = Len(nodes) + 1

\* C1: closing a scope restores the thread's binding to the value it had
\* just before that scope was opened. Scopes nest LIFO and a thread starts
\* unbound, so that value is what the enclosing live scope installed, or
\* none when no scope encloses it: after S1 on A, S2 on B, close S2, the
\* binding is A again, and after S1 closes it is none.
C1_CloseRestoresBinding ==
  [][\A t \in Threads :
       CloseScope(t) =>
         tls_head'[t] = IF scopes'[t] = <<>> THEN nullptr
                        ELSE scopes'[t][Len(scopes'[t])].arena]_vars

\* C2: a block created by growth for a request of n bytes has capacity
\* max(configured capacity, n), so never less than the capacity the arena
\* was constructed with and never less than n.
C2_GrowthCapacityIsMax ==
  [][\A t \in Threads, n \in Sizes, align \in Alignments :
       (Allocate(t, n, align) /\ Grew) =>
         nodes'[Len(nodes')].capacity = Max(Capacities[Active(t)], n)]_vars

\* C3: a request larger than the arena's configured capacity succeeds: it
\* returns a region of n bytes in a block made large enough for it.
C3_OversizedRequestSucceeds ==
  [][\A t \in Threads, n \in Sizes, align \in Alignments :
       (Allocate(t, n, align) /\ n > Capacities[Active(t)]) =>
         Returned(t, n)]_vars

\* ---------------------------------------------------- block-level claims
\* The byte just past region r.
End(r) == r.start + r.n

C6_SizeWithinCapacity ==
  \A b \in Blocks : 0 <= nodes[b].size /\ nodes[b].size <= nodes[b].capacity

\* A block was filled to exactly its capacity by more than one allocation,
\* while another block is only partly used.
C6_Witness ==
  /\ \E r \in regions :
       /\ r.start > 0
       /\ End(r) = nodes[r.block].capacity
       /\ nodes[r.block].size = nodes[r.block].capacity
  /\ \E b \in Blocks : 0 < nodes[b].size /\ nodes[b].size < nodes[b].capacity

C8_ChainNeverEmpty ==
  \A a \in Arenas :
    /\ head_[a] \in Blocks
    /\ Chain(nodes, head_[a]) # <<>>

\* An arena's chain has grown on a request that then returned nullptr (the
\* new head is untouched), and the arena still has its blocks.
C8_Witness ==
  \E a \in Arenas :
    /\ Len(Chain(nodes, head_[a])) >= 2
    /\ nodes[head_[a]].size = 0
    /\ nodes[head_[a]].capacity > 0

\* C9: every region returned so far lies, at the block and offset it was
\* returned with, within the used bytes of a block that is still in the
\* chain of the arena it came from.
C9_ReturnedRegionsStayValid ==
  \A r \in regions :
    /\ r.block \in ChainSet(nodes, head_[r.arena])
    /\ End(r) <= nodes[r.block].size
    /\ End(r) <= nodes[r.block].capacity

\* A region returned earlier lies in a block the chain has since grown past.
C9_Witness ==
  \E r \in regions :
    /\ r.block # head_[r.arena]
    /\ InBlock(regions, head_[r.arena]) # {}

RECURSIVE SumN(_)
SumN(rs) ==
  IF rs = {} THEN 0
  ELSE LET r == CHOOSE x \in rs : TRUE IN r.n + SumN(rs \ {r})

\* The highest byte handed out of block b, plus one.
HighWater(rs, b) ==
  IF InBlock(rs, b) = {} THEN 0
  ELSE LET top == CHOOSE r \in InBlock(rs, b) :
                    \A q \in InBlock(rs, b) : End(q) <= End(r)
       IN  End(top)

\* The bytes of block b below its high-water mark that lie in no region:
\* the alignment padding.
Padding(rs, b) ==
  Cardinality({i \in 0..(HighWater(rs, b) - 1) :
                 \A r \in InBlock(rs, b) : i < r.start \/ End(r) <= i})

\* What the allocations from block b add up to, padding included.
Total(rs, b) == SumN(InBlock(rs, b)) + Padding(rs, b)

C11_NoScopeNoBinding ==
  \A t \in Threads : scopes[t] = <<>> => tls_head[t] = nullptr

\* What belongs to thread u in the two-threaded program is the same after
\* the step as before it: u's binding and scope stack, and the head, the
\* blocks and the returned regions of u's arena.
Untouched(u) ==
  /\ tls_head'[u] = tls_head[u]
  /\ scopes'[u] = scopes[u]
  /\ head_'[ArenaOf[u]] = head_[ArenaOf[u]]
  /\ \A b \in ChainSet(nodes, head_[ArenaOf[u]]) : nodes'[b] = nodes[b]
  /\ {r \in regions' : r.arena = ArenaOf[u]} = {r \in regions : r.arena = ArenaOf[u]}

\* C12: with two threads interleaved, each using its own arena, every step
\* is the step of one thread and leaves the other thread's binding, scope
\* stack and arena exactly as they were, and a thread's binding is only
\* ever empty or its own arena: what a thread sees is what it would see
\* running alone.
C12_BindingIsPerThread ==
  [][/\ \E t \in Threads : \A u \in Threads \ {t} : Untouched(u)
     /\ \A u \in Threads : tls_head'[u] \in {nullptr, ArenaOf[u]}]_vars

\* Both threads are inside a scope, each bound to its own arena, and each
\* arena has served an allocation.
C12_Witness ==
  /\ \A t \in Threads : scopes[t] # <<>> /\ tls_head[t] = ArenaOf[t]
  /\ \A t \in Threads : \E r \in regions : r.arena = ArenaOf[t]

\* C14: extensible_arena::allocate never hands a null pointer to its
\* caller: every call made inside a scope either returns a region or, the
\* retry on the fresh head having failed, ends the process.
C14_ArenaAllocateNeverNull ==
  [][\A t \in Threads, n \in Sizes, align \in Alignments :
       Allocate(t, n, align) =>
         \/ arena_allocate(nodes, head_[Active(t)], n, align).ret # nullptr
         \/ aborted']_vars

\* C15: on the arena constructed with capacity 64, allocate(40, 1) is
\* served at offset 0 of the first block; the next allocate(40, 1) does not
\* fit, makes a new head block of capacity 64 and is served at offset 0 of
\* it, and the old block stays in the chain as the new head's next, its
\* size still 40.
C15_Scenario64 ==
  [][\A t \in Threads :
       (/\ Active(t) = 1
        /\ head_[1] = 1
        /\ Allocate(t, 40, 1))
       => /\ nodes[1].size = 0 =>
               /\ ~Grew
               /\ [arena |-> 1, block |-> 1, start |-> 0, n |-> 40] \in regions'
          /\ (nodes[1].size = 40 /\ InBlock(regions, 1) # {}) =>
               /\ Grew
               /\ head_'[1] = Len(nodes')
               /\ nodes'[head_'[1]].capacity = ScenarioCapacities[1]
               /\ [arena |-> 1, block |-> head_'[1], start |-> 0, n |-> 40]
                    \in regions'
               /\ nodes'[head_'[1]].next = 1
               /\ nodes'[1] = nodes[1]]_vars

\* C17: when the memory for a block cannot be had, the std::bad_alloc
\* reaches the caller of the operation that needed the block, at the
\* arena's construction as at the growth of its chain: the caller gets the
\* exception and the process is not ended.
C17_OutOfMemoryPropagates ==
  [][/\ \A a \in Arenas : ConstructOOM(a) => thrown' /\ ~aborted'
     /\ \A t \in Threads, n \in Sizes, align \in Alignments :
          AllocateOOM(t, n, align) => thrown' /\ ~aborted']_vars

\* C18: while an arena is alive none of the blocks of its chain has been
\* deleted, and once it is destroyed the deleter has been called on every
\* block of its chain exactly once, the head first and then each next in
\* turn, so that no block of the arena is left.
C18_BlocksDieWithTheirArena ==
  \A a \in Arenas :
    IF Alive(a)
      THEN ChainSet(nodes, head_[a]) \cap Deleted = {}
      ELSE SelectSeq(deleted, LAMBDA b : b \in ChainSet(nodes, head_[a]))
             = Chain(nodes, head_[a])

\* An arena whose chain had grown has been destroyed while the other arena,
\* with regions handed out, is still alive.
C18_Witness ==
  \E a, b \in Arenas :
    /\ ~Alive(a) /\ Len(Chain(nodes, head_[a])) >= 2
    /\ Alive(b) /\ \E r \in regions : r.arena = b

\* C19: a fake has no effect: constructing one from any argument, and
\* destroying it, changes no thread's binding, no scope, no arena's head
\* or chain and no block's size.
C19_FakeHasNoEffect ==
  [][\A t \in Main, arg \in FakeArgs : Fake(t, arg) =>
       UNCHANGED <<nodes, head_, tls_head, scopes, regions, aborted>>]_vars

\* A fake has been used, and the thread is inside a scope on an arena that
\* has handed out a region.
C19_Witness ==
  /\ "fake" \in inert
  /\ \E t \in Main :
       /\ scopes[t] # <<>>
       /\ \E r \in regions : r.arena = Active(t)

\* ------------------------------------------------------- adapter claims
\* C13: arena_allocator::deallocate is a no-op: handing back any region
\* changes no block's size or capacity, no chain, no head and no binding.
\* Every later allocate is computed from exactly these, so it returns what
\* it would have returned without the call.
C13_DeallocateIsNoOp ==
  [][\A r \in regions : AdapterDeallocate(r) =>
       UNCHANGED <<nodes, head_, tls_head, scopes, regions, aborted>>]_vars

\* deallocate has been called, and the bytes of every region handed out
\* still count as used in their block.
C13_Witness ==
  /\ "deallocate" \in inert
  /\ regions # {}
  /\ \A r \in regions : End(r) <= nodes[r.block].size

C20_AdaptersShareActiveArena ==
  [][UNCHANGED <<tls_head, scopes, aborted, rest>> =>
       \A t \in Main, T \in ElementTypes, n \in Counts :
         AdapterAllocate(t, T, n) =>
           /\ \A a \in Arenas \ {Active(t)} :
                /\ head_'[a] = head_[a]
                /\ \A b \in ChainSet(nodes, head_[a]) : nodes'[b] = nodes[b]
           /\ \A r \in regions' \ regions :
                /\ r.arena = Active(t)
                /\ r.block \in ChainSet(nodes', head_'[Active(t)])]_vars

\* Inside one scope, regions of two element sizes have been returned, both
\* from the chain of the active arena, while the other arena is untouched.
C20_Witness ==
  \E t \in Main :
    /\ Len(scopes[t]) = 1
    /\ \E r, q \in regions :
         /\ r.n = 1 /\ q.n = 2
         /\ r.arena = Active(t) /\ q.arena = Active(t)
    /\ \A r \in regions : r.arena = Active(t)

\* --------------------------------------------------------- chain claims
\* The first attempt of an arena allocation, on the head, has room.
Fits(a, n, align) == list_node_allocate(nodes[head_[a]], n, align).ok

\* C21: when the head block can satisfy the request, the allocation makes
\* no block, leaves every arena's head and every other block as they were,
\* and changes nothing of the head block but its size.
C21_HotPathTouchesOnlyHeadSize ==
  [][UNCHANGED <<tls_head, scopes, aborted, rest>> =>
       \A t \in Main, n \in Sizes, align \in Alignments :
         (/\ Active(t) # nullptr
          /\ Fits(Active(t), n, align)
          /\ Allocate(t, n, align)) =>
            LET h == head_[Active(t)]
            IN  /\ ~Grew
                /\ head_' = head_
                /\ Chain(nodes', h) = Chain(nodes, h)
                /\ \A b \in Blocks \ {h} : nodes'[b] = nodes[b]
                /\ nodes'[h] = [nodes[h] EXCEPT !.size = nodes'[h].size]]_vars

\* A head that is itself the product of growth, with a block behind it,
\* has served a request on the hot path.
C21_Witness ==
  \E a \in Arenas :
    /\ nodes[head_[a]].next # nullptr
    /\ Cardinality(InBlock(regions, head_[a])) >= 2

\* A sequence of node addresses runs from the most recently created node
\* to the least recently created one (addresses are given out in order of
\* creation).
NewestFirst(c) == \A i \in 1..(Len(c) - 1) : c[i] > c[i + 1]

Demoted == UNION {ChainSet(nodes, nodes[head_[a]].next) : a \in Arenas}

\* C23: allocations are carved from head blocks only: a block that lies
\* behind the head of its chain stays behind it and none of its fields,
\* its size among them, ever changes again, whatever room it has left.
C23_DemotedBlocksAreFrozen ==
  [][\A b \in Demoted :
       /\ nodes'[b] = nodes[b]
       /\ \A a \in Arenas : head_'[a] # b
       /\ \A r \in regions' \ regions : r.block # b]_vars

\* A block behind the head has room left, and after its demotion the head
\* has served a request that this room would have held.
C23_Witness ==
  \E a \in Arenas :
    \E b \in ChainSet(nodes, nodes[head_[a]].next) :
      \E r \in InBlock(regions, head_[a]) :
        r.n <= nodes[b].capacity - nodes[b].size

\* C24: an arena allocation is a bounded straight line: whatever the
\* chain, the size and the alignment, the call makes at most two attempts
\* on a block and makes at most one block, which is all it adds to the
\* heap, and it visits no block of the chain but the head.
C24_AtMostTwoAttemptsOneBlock ==
  \A a \in Arenas, n \in Sizes, align \in Alignments :
    LET r == arena_allocate(nodes, head_[a], n, align)
    IN  /\ r.attempts <= 2
        /\ r.made <= 1
        /\ Len(r.nodes) = Len(nodes) + r.made
        /\ r.made = 1 <=> ~Fits(a, n, align)
        /\ \A b \in Blocks \ {head_[a]} : r.nodes[b] = nodes[b]

\* A call has made both attempts in vain: the head is an empty block with
\* capacity, made by growth, behind which the chain goes on.
C24_Witness ==
  \E a \in Arenas :
    /\ nodes[head_[a]].next # nullptr
    /\ nodes[head_[a]].size = 0
    /\ nodes[head_[a]].capacity > 0

\* C25: a scope binds the thread to the arena's head_ member, not to a
\* block: while the innermost live scope of a thread is on arena X, the
\* thread's allocations go through X's head_ as it is at the call, so that
\* what they change is X's head_ and X's chain, and a block they make
\* becomes X's head.
C25_InnermostScopeServes ==
  [][UNCHANGED <<tls_head, scopes, aborted, rest>> =>
       \A t \in Main, n \in Sizes, align \in Alignments :
         (scopes[t] # <<>> /\ Allocate(t, n, align)) =>
           LET X == scopes[t][Len(scopes[t])].arena
               r == arena_allocate(nodes, head_[X], n, align)
           IN  /\ nodes' = r.nodes
               /\ head_'[X] = r.head
               /\ \A o \in Arenas \ {X} : head_'[o] = head_[o]]_vars

\* C26: whatever allocations an arena has served before, of any sizes and
\* alignments, growth included, a request for no more bytes than the
\* capacity the arena was constructed with returns a region.
C26_NominalRequestSucceeds ==
  \A a \in Arenas, n \in Sizes, align \in Alignments :
    n <= Capacities[a] =>
      arena_allocate(nodes, head_[a], n, align).ret # nullptr

\* Two regions share no byte: they lie in different blocks or their byte
\* ranges [start, start + n) do not meet.
Disjoint(r, q) ==
  r.block # q.block \/ End(r) <= q.start \/ End(q) <= r.start

C28_BindingNeverDangles ==
  \A t \in Threads : tls_head[t] = nullptr \/ Alive(tls_head[t])

\* C29: size_t arithmetic wrapping at 2^Width, list_node::allocate returns
\* a pointer only when the request fits as true integers: the rounded-up
\* start is not below size, and start + n is not above capacity.
C29_WrapNeverAdmits ==
  [][\A b \in 1..Len(nodes), n \in WrapSizes, align \in Alignments :
       (/\ BlockAllocate(b, n, align)
        /\ list_node_allocate(nodes[b], n, align).ok)
       => /\ list_node_allocate(nodes[b], n, align).start >= nodes[b].size
          /\ RoundUp(nodes[b].size, align) + n <= nodes[b].capacity]_vars

\* C30: when list_node::make fails during growth, so that the allocate
\* call ends with std::bad_alloc reaching its caller, the arena is left as
\* it was before the call: the same head, the same chain and the same size
\* and capacity in every block; no region is handed out.
C30_FailedGrowthLeavesArenaIntact ==
  [][(~thrown /\ thrown') =>
       /\ head_' = head_
       /\ nodes' = nodes
       /\ \A a \in Arenas : Chain(nodes', head_'[a]) = Chain(nodes, head_[a])
       /\ regions' = regions]_vars

\* A bad_alloc has reached the caller, and the arena the thread is bound
\* to has since grown and served a region from its new head.
C30_Witness ==
  /\ thrown
  /\ ~aborted
  /\ \E t \in Main :
       /\ Active(t) # nullptr
       /\ nodes[head_[Active(t)]].next # nullptr
       /\ InBlock(regions, head_[Active(t)]) # {}

\* --------------------------------------------------------- joined text
\* What the call appended to the target it was given.
Emitted == SubSeq(target, Len(pending.before) + 1, Len(target))

\* The text of one element on its own, with no delimiter led or followed.
Rendered(part) ==
  append_join_with(head_opt_v(pending.opt), NoChar, NoChar, <<>>, pending.d,
                   part)

\* r1 d r2 d ... rk for the texts r1..rk of parts[i..k].
RECURSIVE Interleaved(_, _, _)
Interleaved(parts, d, i) ==
  IF i > Len(parts) THEN <<>>
  ELSE IF i = Len(parts) THEN Rendered(parts[i])
  ELSE Rendered(parts[i]) \o <<d>> \o Interleaved(parts, d, i + 1)

\* The brackets of the joined container: the caller's, or square ones.
OpenBracket == IF pending.braces[1] # NoChar THEN pending.braces[1] ELSE "["
CloseBracket == IF pending.braces[2] # NoChar THEN pending.braces[2] ELSE "]"

\* The whole text the claim describes for the pending call.
Bracketed ==
  (IF delimit_v(pending.opt) THEN <<pending.d>> ELSE <<>>)
    \o <<OpenBracket>>
    \o Interleaved(pending.parts.value, pending.d, 1)
    \o <<CloseBracket>>

\* An element that appends nothing at all: an optional without a value.
Absent(part) == part.kind = "optional" /\ part.value = <<>>

\* C31: joining a container of k elements with braces enabled emits the
\* opening bracket, the elements in order with the delimiter exactly
\* between consecutive elements (k - 1 delimiters, none before the first or
\* after the last; with prefixed set one delimiter leads the whole), and the
\* closing bracket; an empty container yields just the two brackets.
C31_JoinDelimitsBetweenElements ==
  (pending.done /\ "flat" \notin pending.opt) => Emitted = Bracketed

\* The same text, for the containers all of whose elements have a value.
JoinOfPresentElements ==
  (/\ pending.done
   /\ "flat" \notin pending.opt
   /\ \A i \in 1..Len(pending.parts.value) : ~Absent(pending.parts.value[i]))
    => Emitted = Bracketed

\* A joined container of three elements, one of them a container itself.
JoinOfPresentElements_Reached ==
  /\ pending.done
  /\ pending.opt = {}
  /\ Len(pending.parts.value) = MaxParts
  /\ \A i \in 1..MaxParts : ~Absent(pending.parts.value[i])
  /\ \E i \in 1..MaxParts : pending.parts.value[i].kind = "container"

====
